---- MODULE Spec2Model ----
(***************************************************************************)
(* Model of wiki_app.py: a Streamlit script that connects to a Weaviate    *)
(* backend, reads a question and a chunk limit, calls                      *)
(* retrieve_and_generate (hybrid search, then a generative near_text       *)
(* query) and closes the client.  Streamlit re-executes the script from    *)
(* the top on every interaction; st.cache_resource keeps its cache for the *)
(* life of the server process.                                             *)
(***************************************************************************)
EXTENDS Integers, Sequences, FiniteSets, TLC

VARIABLES
    pc,          \* position of the current script run
    runs,        \* number of script runs started so far
    query,       \* st.text_input value of this run (a sequence of characters)
    num_chunks,  \* st.slider value of this run
    results,     \* retrieve_and_generate local: objects of the hybrid search
    context,     \* retrieve_and_generate local: the formatted context string
    genReq,      \* the generation request sent to the backend (<<>> if none)
    grounded,    \* backend side: objects the generation conditioned on
    ret,         \* value retrieve_and_generate returned (<<>> none, <<r>> r)
    err,         \* exception of this run ("" if none)
    shown,       \* what the page shows for this run
    cache,       \* st.cache_resource entries of retrieve_and_generate
    store,       \* backend state: the data the Weaviate collection holds
    reqs,        \* backend calls of this run, in order
    prevKey,     \* arguments of the last invocation that returned, <<>> if none
    prevRet      \* the value that invocation returned

vars == <<pc, runs, query, num_chunks, results, context, genReq, grounded,
          ret, err, shown, cache, store, reqs, prevKey, prevRet>>

----------------------------------------------------------------------------
(* Bounds and inputs *)

MaxRuns == 2

MinChunks == 1
MaxChunks == 5

\* questions typed into the text input: empty, blank, one word, padded word
Queries == { <<>>, <<" ">>, <<"a">>, <<" ", "a">> }

cA == [title |-> "A", chunk |-> "ta", chunk_number |-> 3, distance |-> 12]
cB == [title |-> "B", chunk |-> "tb", chunk_number |-> 1, distance |-> 30]
cC == [title |-> "C", chunk |-> "tc", chunk_number |-> 2, distance |-> 7]

\* backend states: what the collection ranks for a hybrid query and for a
\* near_text query; the two rankings are produced by different searches
StoreEmpty == [id |-> 0, hybrid |-> <<>>, near |-> <<>>]
StoreFull  == [id |-> 1, hybrid |-> <<cA, cB, cA, cC, cB, cC>>,
                         near   |-> <<cC, cA>>]
Stores == {StoreEmpty, StoreFull}

----------------------------------------------------------------------------
(* Pure helpers *)

Min(a, b) == IF a < b THEN a ELSE b

Take(s, n) == SubSeq(s, 1, Min(n, Len(s)))

Reverse(s) == [i \in 1..Len(s) |-> s[Len(s) + 1 - i]]

\* Python truthiness of a str: `... and query`
Truthy(q) == Len(q) > 0

\* wiki_chunks.query.hybrid(query, limit, ...).objects : the backend's ranked
\* list for the query, cut at the requested limit
HybridObjects(s, q, limit) ==
    Take(IF Len(q) > 1 THEN Reverse(s.hybrid) ELSE s.hybrid, limit)

\* the objects a near_text query selects: the call passes no limit and no
\* reference to the hybrid results, the backend ranks on its own
NearTextObjects(s, q) ==
    IF Len(q) > 1 THEN Reverse(s.near) ELSE s.near

\* one context entry: f"From '{title}' (chunk {chunk_number}):\n{chunk}"
ContextEntry(obj) ==
    <<"From '", obj.title, "' (chunk ", obj.chunk_number, "):\n", obj.chunk>>

\* "\n\n".join([...]) over the retrieved objects
RECURSIVE FormatContext(_)
FormatContext(objs) ==
    IF Len(objs) = 0 THEN <<>>
    ELSE IF Len(objs) = 1 THEN ContextEntry(objs[1])
    ELSE ContextEntry(objs[1]) \o <<"\n\n">> \o FormatContext(Tail(objs))

\* grouped_task = "<directive>\n\nQuestion: " + query
GroupedTask(q) == <<"DIRECTIVE", "\n\nQuestion: ">> \o q

\* arguments of generate.near_text(query=..., grouped_task=...)
GenerateRequest(q) == [query |-> q, grouped_task |-> GroupedTask(q)]

\* generate_response.generated : text produced from the task and the objects
\* the near_text query selected
Generated(s, req) ==
    [task |-> req.grouped_task, docs |-> NearTextObjects(s, req.query)]

\* variant: the sources are listed most-distant first
SourcesOf_Reversed(objs) ==
    [i \in 1..Len(objs) |->
        [title        |-> objs[Len(objs) + 1 - i].title,
         chunk_number |-> objs[Len(objs) + 1 - i].chunk_number,
         distance     |-> objs[Len(objs) + 1 - i].distance]]

\* the "sources" list comprehension
SourcesOf(objs) ==
    [i \in 1..Len(objs) |->
        [title        |-> objs[i].title,
         chunk_number |-> objs[i].chunk_number,
         distance     |-> objs[i].distance]]

\* the returned dict
Result(answer, objs) == [answer |-> answer, sources |-> SourcesOf(objs)]

\* st.cache_resource hashes every argument whose name has no leading
\* underscore: query and num_chunks, not _client
CacheKey(q, n) == <<q, n>>

Keys == { CacheKey(q, n) : q \in Queries, n \in MinChunks..MaxChunks }

CacheLookup(c, k) == c[k]

\* variant: the entry keeps the answer and loses the sources
CacheStore_DropSources(c, k, r) ==
    [c EXCEPT ![k] = <<[answer |-> r.answer, sources |-> <<>>]>>]

CacheStore(c, k, r) == [c EXCEPT ![k] = <<r>>]

\* what the page renders from a result: the answer, and title and chunk
\* number of each source
Rendered(r) ==
    [kind    |-> "answer",
     answer  |-> <<r.answer>>,
     sources |-> [i \in 1..Len(r.sources) |->
                     <<r.sources[i].title, r.sources[i].chunk_number>>]]

RenderedError(e) == [kind |-> "error", answer |-> <<>>, sources |-> <<e>>]

Blank == [kind |-> "none", answer |-> <<>>, sources |-> <<>>]

----------------------------------------------------------------------------
(* The script *)

Init ==
    /\ pc = "start"
    /\ runs = 1
    /\ query = <<>>
    /\ num_chunks = 3
    /\ results = <<>>
    /\ context = <<>>
    /\ genReq = <<>>
    /\ grounded = <<>>
    /\ ret = <<>>
    /\ err = ""
    /\ shown = Blank
    /\ cache = [k \in Keys |-> <<>>]
    /\ store \in Stores
    /\ reqs = <<>>
    /\ prevKey = <<>>
    /\ prevRet = <<>>

\* client = utils.connect_to_my_db() returns
ConnectOk ==
    /\ pc = "start"
    /\ reqs' = Append(reqs, "connect")
    /\ pc' = "widgets"
    /\ UNCHANGED <<runs, query, num_chunks, results, context, genReq, grounded,
                   ret, err, shown, cache, store, prevKey, prevRet>>

\* client = utils.connect_to_my_db() raises: st.error, st.stop
ConnectFail ==
    /\ pc = "start"
    /\ err' = "connect"
    /\ shown' = RenderedError("connect")
    /\ pc' = "stopped"
    /\ UNCHANGED <<runs, query, num_chunks, results, context, genReq, grounded,
                   ret, cache, store, reqs, prevKey, prevRet>>

\* the widgets are read and the button is not pressed or the query is falsy
SkipHandler ==
    /\ pc = "widgets"
    /\ \E q \in Queries, n \in MinChunks..MaxChunks, button \in BOOLEAN :
          /\ ~(button /\ Truthy(q))
          /\ query' = q
          /\ num_chunks' = n
    /\ pc' = "closing"
    /\ UNCHANGED <<runs, results, context, genReq, grounded, ret, err, shown,
                   cache, store, reqs, prevKey, prevRet>>

\* the handler calls retrieve_and_generate and the cache holds an entry for
\* the arguments: the cached value is returned, the body does not run
CallCached ==
    /\ pc = "widgets"
    /\ \E q \in Queries, n \in MinChunks..MaxChunks :
          /\ Truthy(q)
          /\ CacheLookup(cache, CacheKey(q, n)) # <<>>
          /\ query' = q
          /\ num_chunks' = n
          /\ ret' = CacheLookup(cache, CacheKey(q, n))
          /\ shown' = Rendered(CacheLookup(cache, CacheKey(q, n))[1])
    /\ pc' = "closing"
    /\ UNCHANGED <<runs, results, context, genReq, grounded, err, cache, store,
                   reqs, prevKey, prevRet>>

\* the handler calls retrieve_and_generate and the cache has no entry: the
\* body starts
CallMiss ==
    /\ pc = "widgets"
    /\ \E q \in Queries, n \in MinChunks..MaxChunks :
          /\ Truthy(q)
          /\ CacheLookup(cache, CacheKey(q, n)) = <<>>
          /\ query' = q
          /\ num_chunks' = n
    /\ pc' = "retrieving"
    /\ UNCHANGED <<runs, results, context, genReq, grounded, ret, err, shown,
                   cache, store, reqs, prevKey, prevRet>>

\* variant: an empty hybrid result is raised as an error
HybridOk_RaiseOnEmpty ==
    /\ pc = "retrieving"
    /\ reqs' = Append(reqs, "hybrid")
    /\ results' = HybridObjects(store, query, num_chunks)
    /\ context' = FormatContext(results')
    /\ IF results' = <<>>
         THEN /\ err' = "empty"
              /\ shown' = RenderedError("empty")
              /\ pc' = "closing"
         ELSE /\ pc' = "synthesizing"
              /\ UNCHANGED <<err, shown>>
    /\ UNCHANGED <<runs, query, num_chunks, genReq, grounded, ret,
                   cache, store, prevKey, prevRet>>

\* the hybrid search answers; the context is formatted
HybridOk ==
    /\ pc = "retrieving"
    /\ reqs' = Append(reqs, "hybrid")
    /\ results' = HybridObjects(store, query, num_chunks)
    /\ context' = FormatContext(results')
    /\ pc' = "synthesizing"
    /\ UNCHANGED <<runs, query, num_chunks, genReq, grounded, ret, err, shown,
                   cache, store, prevKey, prevRet>>

\* variant: a failed hybrid search is taken as zero chunks and the body goes on
HybridFail_Swallowed ==
    /\ pc = "retrieving"
    /\ reqs' = Append(reqs, "hybrid")
    /\ err' = "hybrid"
    /\ results' = <<>>
    /\ pc' = "synthesizing"
    /\ UNCHANGED <<runs, query, num_chunks, context, genReq, grounded,
                   ret, shown, cache, store, prevKey, prevRet>>

\* the hybrid search raises: the exception leaves retrieve_and_generate and
\* the handler's except clause shows it
HybridFail ==
    /\ pc = "retrieving"
    /\ reqs' = Append(reqs, "hybrid")
    /\ err' = "hybrid"
    /\ shown' = RenderedError("hybrid")
    /\ pc' = "closing"
    /\ UNCHANGED <<runs, query, num_chunks, results, context, genReq, grounded,
                   ret, cache, store, prevKey, prevRet>>

\* generate.near_text answers; the dict is built, cached and returned, and
\* the handler renders it
GenerateOk ==
    /\ pc = "synthesizing"
    /\ reqs' = Append(reqs, "generate")
    /\ genReq' = <<GenerateRequest(query)>>
    /\ grounded' = NearTextObjects(store, query)
    /\ LET r == Result(Generated(store, GenerateRequest(query)), results)
       IN  /\ ret' = <<r>>
           /\ cache' = CacheStore(cache, CacheKey(query, num_chunks), r)
           /\ shown' = Rendered(r)
    /\ pc' = "closing"
    /\ UNCHANGED <<runs, query, num_chunks, results, context, err, store,
                   prevKey, prevRet>>

\* variant: a failed generation is replaced by an answer made of the context
GenerateFail_Fallback ==
    /\ pc = "synthesizing"
    /\ reqs' = Append(reqs, "generate")
    /\ genReq' = <<GenerateRequest(query)>>
    /\ err' = "generate"
    /\ ret' = <<Result(context, results)>>
    /\ shown' = Rendered(Result(context, results))
    /\ pc' = "closing"
    /\ UNCHANGED <<runs, query, num_chunks, results, context, grounded,
                   cache, store, prevKey, prevRet>>

\* variant: the handler has no except clause, the exception ends the script
GenerateFail_Uncaught ==
    /\ pc = "synthesizing"
    /\ reqs' = Append(reqs, "generate")
    /\ genReq' = <<GenerateRequest(query)>>
    /\ err' = "generate"
    /\ shown' = RenderedError("generate")
    /\ pc' = "aborted"
    /\ UNCHANGED <<runs, query, num_chunks, results, context, grounded, ret,
                   cache, store, prevKey, prevRet>>

\* generate.near_text raises: nothing is returned or cached, the handler's
\* except clause shows the exception
GenerateFail ==
    /\ pc = "synthesizing"
    /\ reqs' = Append(reqs, "generate")
    /\ genReq' = <<GenerateRequest(query)>>
    /\ err' = "generate"
    /\ shown' = RenderedError("generate")
    /\ pc' = "closing"
    /\ UNCHANGED <<runs, query, num_chunks, results, context, grounded, ret,
                   cache, store, prevKey, prevRet>>

\* client.close() at the end of the script
Close ==
    /\ pc = "closing"
    /\ reqs' = Append(reqs, "close")
    /\ pc' = "end"
    /\ UNCHANGED <<runs, query, num_chunks, results, context, genReq, grounded,
                   ret, err, shown, cache, store, prevKey, prevRet>>

\* Streamlit executes the script again: everything but the resource cache
\* starts afresh
Rerun ==
    /\ pc \in {"end", "stopped"}
    /\ runs < MaxRuns
    /\ runs' = runs + 1
    /\ pc' = "start"
    /\ query' = <<>>
    /\ num_chunks' = 3
    /\ results' = <<>>
    /\ context' = <<>>
    /\ genReq' = <<>>
    /\ grounded' = <<>>
    /\ ret' = <<>>
    /\ err' = ""
    /\ shown' = Blank
    /\ reqs' = <<>>
    /\ IF ret # <<>>
         THEN prevKey' = <<CacheKey(query, num_chunks)>> /\ prevRet' = ret
         ELSE UNCHANGED <<prevKey, prevRet>>
    /\ UNCHANGED <<cache, store>>

\* the collection's content changes (ingestion runs outside this program)
BackendChange ==
    /\ \E s \in Stores : s # store /\ store' = s
    /\ UNCHANGED <<pc, runs, query, num_chunks, results, context, genReq,
                   grounded, ret, err, shown, cache, reqs, prevKey, prevRet>>

Next ==
    \/ ConnectOk
    \/ ConnectFail
    \/ SkipHandler
    \/ CallCached
    \/ CallMiss
    \/ HybridOk
    \/ HybridFail
    \/ GenerateOk
    \/ GenerateFail
    \/ Close
    \/ Rerun
    \/ BackendChange

Spec == Init /\ [][Next]_vars

\* the same program against a backend whose data never changes
NextFixed ==
    \/ ConnectOk
    \/ ConnectFail
    \/ SkipHandler
    \/ CallCached
    \/ CallMiss
    \/ HybridOk
    \/ HybridFail
    \/ GenerateOk
    \/ GenerateFail
    \/ Close
    \/ Rerun

SpecFixed == Init /\ [][NextFixed]_vars

----------------------------------------------------------------------------
(* Properties *)

InReqs(x) == \E i \in 1..Len(reqs) : reqs[i] = x

Count(x) == Cardinality({i \in 1..Len(reqs) : reqs[i] = x})

\* str.strip() on a sequence of characters
RECURSIVE StripLeft(_)
StripLeft(q) ==
    IF Len(q) > 0 /\ Head(q) = " " THEN StripLeft(Tail(q)) ELSE q

Strip(q) == Reverse(StripLeft(Reverse(StripLeft(q))))

\* the script run is over
RunOver == pc \notin {"start", "widgets", "retrieving", "synthesizing", "closing"}

C2_GroundedInRetrieved ==
    (ret # <<>> /\ InReqs("generate")) => grounded = results

\* C3: when the hybrid search raised, nothing is returned, no generation
\* request was issued, and the hybrid search was issued once.
C3_RetrievalFailureStops ==
    err = "hybrid" =>
        /\ ret = <<>>
        /\ genReq = <<>>
        /\ ~InReqs("generate")
        /\ Count("hybrid") = 1
        /\ shown.kind = "error"

C3_Witness == err = "hybrid" /\ pc = "end"

\* C4: when the generation raised after a successful hybrid search, nothing
\* is returned, and the page shows the error only: no answer and none of the
\* retrieved chunks.
C4_GenerationFailurePropagates ==
    err = "generate" =>
        /\ ret = <<>>
        /\ shown = RenderedError("generate")
        /\ CacheLookup(cache, CacheKey(query, num_chunks)) = <<>>

C4_Witness == err = "generate" /\ Len(results) > 1 /\ pc = "end"

\* C5: when the hybrid search returned zero objects, the invocation goes on
\* to issue the generation request; no error other than a failure of that
\* request arises, and when it answers the value returned has empty sources
\* and the generated text as its answer.
C5_EmptyResultLaw ==
    (pc \in {"closing", "end"} /\ InReqs("hybrid") /\ err # "hybrid"
        /\ results = <<>>) =>
        /\ InReqs("generate")
        /\ err \in {"", "generate"}
        /\ err = "" =>
              /\ ret # <<>>
              /\ ret[1].sources = <<>>
              /\ ret[1].answer.task = GroupedTask(query)
              /\ ret[1].answer.docs = grounded
              /\ shown.kind = "answer"

C5_Witness ==
    /\ pc = "end"
    /\ InReqs("hybrid")
    /\ results = <<>>
    /\ err = ""
    /\ ret # <<>>

\* C6: every invocation that returned a value issued exactly one hybrid
\* search and then exactly one generation request.
C6_OneSearchThenOneGeneration ==
    (pc = "end" /\ ret # <<>>) =>
        reqs = <<"connect", "hybrid", "generate", "close">>

\* C7: no hybrid search or generation request is issued for a question that
\* is empty after trimming.
C7_BlankQuestionRejected ==
    (InReqs("hybrid") \/ InReqs("generate")) => Strip(query) # <<>>

\* C8: a returned value is made of the backend's responses of that
\* invocation: the sources of the objects its hybrid search returned and the
\* text its generation request produced.
C8_NoStateBetweenQueries ==
    ret # <<>> =>
        /\ genReq = <<GenerateRequest(query)>>
        /\ ret[1].sources = SourcesOf(results)
        /\ ret[1].answer.docs = grounded

\* C9: against a backend whose data is fixed, an invocation with the same
\* question and chunk limit as the previous returning invocation returns the
\* same value.
C9_IdempotentUnderDeterminism ==
    (ret # <<>> /\ prevKey = <<CacheKey(query, num_chunks)>>) => ret = prevRet

C9_Witness ==
    /\ ret # <<>>
    /\ prevKey = <<CacheKey(query, num_chunks)>>
    /\ Len(ret[1].sources) > 1

\* C10: a run whose connect failed issues no backend request; in a run whose
\* connect succeeded every hybrid search and generation request comes after
\* the connect and before the close, and when the run is over the client has
\* been closed exactly once, as the last call.
C10_ConnectionLifecycle ==
    /\ err = "connect" => reqs = <<>>
    /\ reqs # <<>> => reqs[1] = "connect" /\ Count("connect") = 1
    /\ \A i \in 1..Len(reqs) : reqs[i] = "close" => i = Len(reqs)
    /\ (RunOver /\ reqs # <<>>) =>
          Count("close") = 1 /\ reqs[Len(reqs)] = "close"
    /\ ~RunOver => Count("close") = 0

C10_Witness == pc = "end" /\ err = "generate" /\ Count("close") = 1

====
